---- MODULE Spec2Model ----
(***************************************************************************)
(* GraphTEASAR: the invalidation-covering skeletonization of a weighted    *)
(* graph (graph_teasar_component), its per-component driver (graph_teasar) *)
(* and the double-sweep root heuristic (find_far_points_graph).            *)
(*                                                                         *)
(* Distances are integers; the float inputs of the tests are scaled by    *)
(* ten where they are not whole (invalidation_d = 1.1 is 11 on edges of   *)
(* weight 10).  np.inf, np.nan and scipy's -9999 predecessor sentinel are  *)
(* the values Inf, NaN and NoPred.                                         *)
(***************************************************************************)
EXTENDS Integers, Sequences, FiniteSets, TLC

\* ---------------------------------------------------------------- bounds
\* vertices of the enumerated input graphs
N == 4
\* largest edge weight of the enumerated input graphs (weights 0..MaxW)
MaxW == 1
\* largest invalidation_d tried on the enumerated input graphs
MaxInv == 1
\* largest cc_vertex_thresh tried
MaxThresh == 2

\* ------------------------------------------------------- numeric sentinels
Inf == 1000000
NaN == -1
NoPred == -9999
DefaultInvalidationD == 10000
\* an index argument that is None
NoIndex == -2
\* an array argument that is None
None == <<>>

\* -------------------------------------------------------------- the graph
\* A csgraph is its vertex count n, the stored entries adj (row, column) and
\* their weights wt, as in a CSR matrix.
Verts(g) == 0..(g.n - 1)

\* create_spatial_csgraph, undirected: every edge is stored in both directions
MkGraph(n, edges, weight) ==
    [n   |-> n,
     adj |-> edges \cup {<<e[2], e[1]>> : e \in edges},
     wt  |-> [e \in edges \cup {<<f[2], f[1]>> : f \in edges} |->
                IF e \in edges THEN weight[e] ELSE weight[<<e[2], e[1]>>]]]

\* the element of a one-element set; {F(x) : x \in {e}} evaluates e once
Only(S) == CHOOSE x \in S : TRUE

\* f itself; comparing a function makes the model checker tabulate it once
\* instead of re-evaluating its definition at every application
Tabulated(f) == Only({IF h = h THEN h ELSE h : h \in {f}})

Min2(a, b) == IF a <= b THEN a ELSE b

SetMin(S) == CHOOSE x \in S : \A y \in S : x <= y
SetMax(S) == CHOOSE x \in S : \A y \in S : x >= y

\* the vertices a scan of row v of the matrix and of its transpose visits
Neighbors(g, v) == {u \in Verts(g) : <<v, u>> \in g.adj \/ <<u, v>> \in g.adj}

\* the weight the two scans (csr, then csrT) leave on the edge v-u: the
\* smaller of the stored entries
EdgeW(g, v, u) ==
    IF <<v, u>> \in g.adj /\ <<u, v>> \in g.adj
    THEN Min2(g.wt[<<v, u>>], g.wt[<<u, v>>])
    ELSE IF <<v, u>> \in g.adj THEN g.wt[<<v, u>>] ELSE g.wt[<<u, v>>]

\* ------------------------------------------------ scipy.sparse.csgraph.dijkstra
\* The order in which the heap hands out nodes of equal key is the library's:
\* "lo" pops the lowest index first, "hi" the highest.
HeapOrders == {"lo", "hi"}

RemoveMin(heap, val, order) ==
    Only({IF order = "lo" THEN SetMin(mins) ELSE SetMax(mins) :
            mins \in {{v \in heap : \A u \in heap : val[v] <= val[u]}}})

\* the heap, distances, predecessors and sources after node v has been removed
\* and the entries of its row scanned (_dijkstra_scan_heap)
ScanHeap(g, limit, st, v) ==
    Only({[val     |-> Tabulated([j \in Verts(g) |->
                        IF j \in upd THEN st.val[v] + EdgeW(g, v, j) ELSE st.val[j]]),
           pred    |-> Tabulated([j \in Verts(g) |->
                        IF j \in upd THEN v ELSE st.pred[j]]),
           sources |-> Tabulated([j \in Verts(g) |->
                        IF j \in upd THEN st.sources[v] ELSE st.sources[j]]),
           heap    |-> (st.heap \ {v}) \cup upd,
           scanned |-> st.scanned \cup {v}] :
          upd \in {{j \in Neighbors(g, v) :
                      /\ j # v
                      /\ j \notin st.scanned
                      /\ st.val[v] + EdgeW(g, v, j) <= limit
                      /\ \/ j \notin st.heap
                         \/ st.val[j] > st.val[v] + EdgeW(g, v, j)}}})

\* while heap.min_node: v = remove_min(heap); scan v
RECURSIVE DijkstraLoop(_, _, _, _)
DijkstraLoop(g, limit, order, st) ==
    IF st.heap = {} THEN st
    ELSE Only({Only({DijkstraLoop(g, limit, order, next) :
                       next \in {ScanHeap(g, limit, st, v)}}) :
                 v \in {RemoveMin(st.heap, st.val, order)}})

\* what dijkstra returns for the final state of the loop
DijkstraResult(g, st) ==
    [dist    |-> Tabulated([j \in Verts(g) |->
                    IF j \in st.scanned THEN st.val[j] ELSE Inf]),
     pred    |-> st.pred,
     sources |-> st.sources]

\* dijkstra(csgraph, False, indices, limit=limit, min_only=True,
\* return_predecessors=True): distances, predecessors and nearest sources;
\* a vertex farther than limit keeps distance inf and predecessor -9999.
Dijkstra(g, indices, limit, order) ==
    Only({DijkstraResult(g, st) :
            st \in {DijkstraLoop(g, limit, order,
                      [val     |-> [j \in Verts(g) |-> IF j \in indices THEN 0 ELSE Inf],
                       pred    |-> [j \in Verts(g) |-> NoPred],
                       sources |-> [j \in Verts(g) |->
                                      IF j \in indices THEN j ELSE NoPred],
                       heap    |-> indices,
                       scanned |-> {}])}})

\* ------------------------------------- scipy.sparse.csgraph.connected_components
RECURSIVE Reach(_, _)
Reach(g, S) ==
    Only({IF T = S THEN S ELSE Reach(g, T) :
            T \in {S \cup UNION {Neighbors(g, v) : v \in S}}})

Component(g, v) == Reach(g, {v})

\* labels are handed out in the order of each component's lowest vertex
Labels(g) ==
    Only({Tabulated([v \in Verts(g) |->
                Cardinality({f \in {first[u] : u \in Verts(g)} : f < first[v]})]) :
            first \in {Tabulated([v \in Verts(g) |-> SetMin(Component(g, v))])}})

\* n_components for the labels lab
NComponents(lab) == Cardinality({lab[v] : v \in DOMAIN lab})

\* np.unique(labels, return_counts=True)
CompCounts(lab) ==
    [kk \in 0..(NComponents(lab) - 1) |->
        Cardinality({v \in DOMAIN lab : lab[v] = kk})]

\* ------------------------------------------------------------ numpy helpers
\* np.argmax / np.argmin over an array indexed by the vertices: first hit
ArgMax(a, D) == SetMin({v \in D : \A u \in D : a[u] <= a[v]})

\* np.argmin(ds[visited_nodes]): position (1-based) of the first minimum
ArgMinSeq(s) ==
    SetMin({i \in 1..Len(s) : \A j \in 1..Len(s) : s[i] <= s[j]})

SeqSet(s) == {s[i] : i \in 1..Len(s)}

Ones(g) == [v \in Verts(g) |-> TRUE]

NumValid(v) == Cardinality({x \in DOMAIN v : v[x]})

\* root_ds * valid is nan where root_ds is inf and valid is False
ProdIsNaN(rds, v, x) == rds[x] = Inf /\ ~v[x]
ProdVal(rds, v, x) == IF v[x] THEN rds[x] ELSE 0

\* the lowest valid index in place of line 124's farthest one
NanArgFirst(rds, v) ==
    Only({IF D = {} THEN NoPred
          ELSE IF \E x \in D : v[x] THEN SetMin({x \in D : v[x]})
          ELSE SetMin(D) :
            D \in {{x \in DOMAIN rds : ~ProdIsNaN(rds, v, x)}}})

\* np.nanargmax(root_ds * valid); NoPred when every entry is nan (ValueError)
NanArgMax(rds, v) ==
    Only({IF D = {} THEN NoPred
          ELSE SetMin({x \in D : \A y \in D : ProdVal(rds, v, y) <= ProdVal(rds, v, x)}) :
            D \in {{x \in DOMAIN rds : ~ProdIsNaN(rds, v, x)}}})

\* ------------------------------------------------------------ utils.get_path
\* The list the loop of get_path builds from target back to root, before the
\* reverse; it ends in NoPred when the walk leaves the array (IndexError).
RECURSIVE PathWalk(_, _, _, _)
PathWalk(p, stop, pred, fuel) ==
    IF p = stop THEN <<p>>
    ELSE IF p \notin DOMAIN pred \/ fuel = 0 THEN <<NoPred>>
    ELSE <<p>> \o PathWalk(pred[p], stop, pred, fuel - 1)

Reverse(s) == [i \in 1..Len(s) |-> s[Len(s) + 1 - i]]

\* get_path without line 181, path.reverse()
get_path_unreversed(root, target, pred) ==
    Only({IF w[Len(w)] = NoPred THEN Reverse(w) ELSE w :
            w \in {PathWalk(target, root, pred, Cardinality(DOMAIN pred))}})

\* get_path(root, target, pred): from root to target along pred
get_path(root, target, pred) ==
    Only({Reverse(w) : w \in {PathWalk(target, root, pred, Cardinality(DOMAIN pred))}})

PathFailed(path) == path[1] = NoPred

\* ------------------------------------------- the walk to the first visited node
\* while max_branch not in visited_nodes: max_branch = root_pred[max_branch];
\* NoPred when the walk leaves the array (IndexError)
RECURSIVE MaxBranch(_, _, _, _)
MaxBranch(p, visited, rpred, fuel) ==
    IF p \in visited THEN p
    ELSE IF p \notin DOMAIN rpred \/ fuel = 0 THEN NoPred
    ELSE MaxBranch(rpred[p], visited, rpred, fuel - 1)

\* ------------------------------------------------------------------ state
VARIABLES
    entry,                  \* the function the caller invoked
    csgraph,                \* the graph
    invalidation_d,         \* graph_teasar / graph_teasar_component argument
    cc_vertex_thresh,       \* graph_teasar argument
    root_index,             \* graph_teasar argument (NoIndex: None)
    pc,                     \* where control is
    raised,                 \* the exception that ended the call ("" if none)
    \* graph_teasar
    n_components, labels, comp_counts,
    comp_k,                 \* the loop variable k of the component loop
    all_paths, roots, tot_path_lengths,
    mesh_to_skeleton_map,
    \* find_far_points_graph
    fvalid,                 \* its valid argument
    current_root, best_root, max_observed_distance, current_distance,
    far_from_current, pred, dist_to_root,
    far_k,                  \* its sweep counter k
    \* graph_teasar_component
    root, root_ds, root_pred, valid, visited_nodes, paths, path_lengths,
    mesh_to_skeleton_dist, mesh_to_skeleton_map_single,
    k, target, branch, max_path_length,
    valid0                  \* history: valid as the covering loop started

inputVars == <<entry, csgraph, invalidation_d, cc_vertex_thresh, root_index>>
driverVars == <<n_components, labels, comp_counts, comp_k, all_paths, roots, tot_path_lengths, mesh_to_skeleton_map>>
farVars == <<fvalid, current_root, best_root, max_observed_distance,
             current_distance, far_from_current, pred, dist_to_root, far_k>>
compVars == <<root, root_ds, root_pred, valid, visited_nodes, paths, path_lengths,
              mesh_to_skeleton_dist, mesh_to_skeleton_map_single,
              k, target, branch, max_path_length, valid0>>
vars == <<inputVars, pc, raised, driverVars, farVars, compVars>>

Raise(exc) == pc' = "raised" /\ raised' = exc

\* ------------------------------------------------------ find_far_points_graph
\* lines 61-74: the state before the first sweep, for the mask v (None: all)
FarEnter(v) ==
    \E m \in {v} :
        /\ fvalid' = IF m = None THEN Ones(csgraph) ELSE m
        /\ current_root' = IF m = None THEN 0 ELSE SetMin({x \in DOMAIN m : m[x]})
        /\ best_root' = current_root'
        /\ max_observed_distance' = 0
        /\ current_distance' = 0
        /\ far_from_current' = NoIndex
        /\ pred' = None
        /\ dist_to_root' = None
        /\ far_k' = 0

\* np.where(valid)[0][0] of a mask with no True entry is an IndexError
FarCanEnter(v) == v = None \/ \E x \in DOMAIN v : v[x]

\* dist_to_current[~valid] = -1
MaskDistances(dist, v) ==
    Tabulated([x \in DOMAIN dist |-> IF v[x] THEN dist[x] ELSE -1])

\* current_distance >= max_observed_distance in place of line 83
SwapAcceptedOrEqual(cur_distance, max_observed) == cur_distance >= max_observed

\* the test that accepts the sweep's far vertex as the next candidate root
SwapAccepted(cur_distance, max_observed) == cur_distance > max_observed

\* one pass of the while loop, lines 75-90
FarSweep ==
    /\ pc = "find_far"
    /\ \E order \in HeapOrders :
        \E d \in {Dijkstra(csgraph, {current_root}, Inf, order)} :
        \E dist_to_current \in {MaskDistances(d.dist, fvalid)} :
        \E far \in {ArgMax(dist_to_current, DOMAIN dist_to_current)} :
            /\ far_k' = far_k + 1
            /\ far_from_current' = far
            /\ current_distance' = dist_to_current[far]
            /\ IF SwapAccepted(dist_to_current[far], max_observed_distance)
               THEN /\ best_root' = current_root
                    /\ current_root' = far
                    /\ max_observed_distance' = dist_to_current[far]
                    /\ pred' = d.pred
                    /\ dist_to_root' = dist_to_current
                    /\ pc' = "find_far"
               ELSE /\ UNCHANGED <<best_root, current_root, max_observed_distance,
                                   pred, dist_to_root>>
                    /\ pc' = "far_return"
    /\ UNCHANGED <<inputVars, raised, driverVars, fvalid, compVars>>

\* ----------------------------------------------------- graph_teasar_component
\* the check of line 97 left out
UnreachableValidIgnored(ds, v) == FALSE

\* line 97: np.sum(np.isinf(root_ds) & valid) != 0
UnreachableValid(ds, v) == \E x \in DOMAIN v : ds[x] = Inf /\ v[x]

\* lines 78-111, once a root is known: r the root, rds / rpred its distance
\* and predecessor arrays (None: computed here), v the mask (None: all but r)
CompEnter(r, rds, rpred, v, order) ==
    \E d \in {IF rds = None THEN Dijkstra(csgraph, {r}, Inf, order)
                             ELSE [dist |-> rds, pred |-> rpred]} :
    \E ds0 \in {d.dist} :
    \E pr0 \in {d.pred} :
    \E v0 \in {IF v = None THEN [Ones(csgraph) EXCEPT ![r] = FALSE] ELSE v} :
        /\ root' = r
        /\ root_ds' = ds0
        /\ root_pred' = pr0
        /\ valid' = v0
        /\ valid0' = v0
        /\ mesh_to_skeleton_dist' = [x \in Verts(csgraph) |-> Inf]
        /\ mesh_to_skeleton_map_single' = [x \in Verts(csgraph) |-> NaN]
        /\ paths' = <<>>
        /\ path_lengths' = <<>>
        /\ visited_nodes' = <<r>>
        /\ k' = 0
        /\ target' = NoIndex
        /\ branch' = NoIndex
        /\ max_path_length' = 0
        /\ IF UnreachableValid(ds0, v0)
           THEN Raise("ValueError: all valid vertices should be reachable from root")
           ELSE pc' = "teasar_loop" /\ raised' = raised

\* valid = np.isinf(dm) in place of line 206: the mask is rebuilt by each sweep
InvalidateRebuilt(v, dm) == [x \in DOMAIN v |-> dm[x] = Inf]

\* valid[:] = False in place of line 206
InvalidateEverything(v, dm) == [x \in DOMAIN v |-> FALSE]

\* valid[path] = False in place of line 206: only the path itself is covered
InvalidatePathOnly(v, dm) == [x \in DOMAIN v |-> IF dm[x] = 0 THEN FALSE ELSE v[x]]

\* lines 189-206: the mask after a sweep that reached the vertices where dm is
\* finite
Invalidate(v, dm) == [x \in DOMAIN v |-> IF dm[x] # Inf THEN FALSE ELSE v[x]]

\* the first sweep to reach a vertex keeps it, in place of line 192
NewSourceFirst(dm, best, x) == dm[x] # Inf /\ best[x] = Inf

\* line 192: the sweep's source replaces the recorded one
NewSourceCloser(dm, best, x) == dm[x] # Inf /\ dm[x] < best[x]

\* branch = visited_nodes[-1] in place of lines 155-157
BranchOfLast(ds, visited) == visited[Len(visited)]

\* line 155-157: the visited node nearest to the target
BranchOf(ds, visited) == visited[ArgMinSeq([i \in 1..Len(visited) |-> ds[visited[i]]])]

\* line 165: visited_nodes += path[0:-1]
ExtendVisited(visited, path) == visited \o SubSeq(path, 1, Len(path) - 1)

\* root_ds[max_branch] - root_ds[target] in place of line 140
MaxPathLengthFlipped(rds, t, mb) == rds[mb] - rds[t]

\* line 140: the radius of the search from the target
MaxPathLength(rds, t, mb) == rds[t] - rds[mb]

\* path_lengths.append(max_path_length) in place of line 168
RecordedBound(ds, b, mpl) == mpl

\* line 168: the length recorded for the path
RecordedLength(ds, b, mpl) == ds[b]

\* one pass of the while loop, lines 119-210
Iterate ==
    /\ pc = "teasar_loop"
    /\ NumValid(valid) > 0
    /\ k' = k + 1
    /\ \E t \in {NanArgMax(root_ds, valid)} :
       IF t = NoPred THEN
            /\ Raise("ValueError: All-NaN slice encountered")
            /\ UNCHANGED <<valid, visited_nodes, paths, path_lengths, target, branch,
                           max_path_length, mesh_to_skeleton_dist,
                           mesh_to_skeleton_map_single>>
       ELSE IF root_ds[t] = Inf THEN
            /\ Raise("ValueError: target cannot be reached")
            /\ target' = t
            /\ UNCHANGED <<valid, visited_nodes, paths, path_lengths, branch,
                           max_path_length, mesh_to_skeleton_dist,
                           mesh_to_skeleton_map_single>>
       ELSE \E mb \in {MaxBranch(t, SeqSet(visited_nodes), root_pred, csgraph.n)} :
       IF mb = NoPred THEN
            /\ Raise("IndexError")
            /\ target' = t
            /\ UNCHANGED <<valid, visited_nodes, paths, path_lengths, branch,
                           max_path_length, mesh_to_skeleton_dist,
                           mesh_to_skeleton_map_single>>
       ELSE \E mpl \in {MaxPathLength(root_ds, t, mb)} :
       IF mpl < 0 THEN
            /\ Raise("ValueError: limit must be >= 0")
            /\ target' = t
            /\ max_path_length' = mpl
            /\ UNCHANGED <<valid, visited_nodes, paths, path_lengths, branch,
                           mesh_to_skeleton_dist, mesh_to_skeleton_map_single>>
       ELSE \E o1 \in HeapOrders :
            \E dt \in {Dijkstra(csgraph, {t}, mpl, o1)} :
            \E b \in {BranchOf(dt.dist, visited_nodes)} :
            \E path \in {get_path(t, b, dt.pred)} :
                /\ target' = t
                /\ max_path_length' = mpl
                /\ branch' = b
                /\ IF PathFailed(path) THEN
                        /\ Raise("IndexError")
                        /\ UNCHANGED <<valid, visited_nodes, paths, path_lengths,
                                       mesh_to_skeleton_dist,
                                       mesh_to_skeleton_map_single>>
                   ELSE IF dt.dist[b] = Inf THEN
                        /\ Raise("AssertionError")
                        /\ visited_nodes' = ExtendVisited(visited_nodes, path)
                        /\ UNCHANGED <<valid, paths, path_lengths,
                                       mesh_to_skeleton_dist,
                                       mesh_to_skeleton_map_single>>
                   ELSE \E o2 \in HeapOrders :
                        \E sw \in {Dijkstra(csgraph, SeqSet(path), invalidation_d, o2)} :
                        /\ visited_nodes' = ExtendVisited(visited_nodes, path)
                        /\ path_lengths' = Append(path_lengths, RecordedLength(dt.dist, b, mpl))
                        /\ paths' = Append(paths, path)
                        /\ mesh_to_skeleton_map_single' =
                              [x \in Verts(csgraph) |->
                                 IF NewSourceCloser(sw.dist, mesh_to_skeleton_dist, x)
                                 THEN sw.sources[x]
                                 ELSE mesh_to_skeleton_map_single[x]]
                        /\ mesh_to_skeleton_dist' =
                              [x \in Verts(csgraph) |->
                                 IF NewSourceCloser(sw.dist, mesh_to_skeleton_dist, x)
                                 THEN sw.dist[x]
                                 ELSE mesh_to_skeleton_dist[x]]
                        /\ valid' = Invalidate(valid, sw.dist)
                        /\ pc' = "teasar_loop"
                        /\ raised' = raised
    /\ UNCHANGED <<inputVars, driverVars, farVars, root, root_ds, root_pred, valid0>>

\* the branch of the loop guard that leaves graph_teasar_component, line 119
LoopDone == pc = "teasar_loop" /\ NumValid(valid) = 0

\* ------------------------------------------------- find_root.find_graph_root
\* connected_component_slice(G, return_boolean=True): the mask of the largest
\* component (the first of the largest, by label)
LargestComponentMask(g) ==
    Only({Only({Tabulated([v \in Verts(g) |-> lab[v] = label]) :
                  label \in {ArgMax(CompCounts(lab), 0..(NComponents(lab) - 1))}}) :
            lab \in {Labels(g)}})

\* the mask find_graph_root hands to find_far_points_graph
RootMask(v) == IF v = None THEN LargestComponentMask(csgraph) ELSE v

\* ---------------------------------------------------------------- graph_teasar
\* labels >= k in place of labels == k
ComponentAndLaterMask(lab, kk) == [v \in DOMAIN lab |-> lab[v] >= kk]

\* labels == k
ComponentMask(lab, kk) == [v \in DOMAIN lab |-> lab[v] = kk]

\* comp_counts[k] >= cc_vertex_thresh in place of line 304
AtLeastThresh(count, thresh) == count >= thresh

\* line 304: the components that are skeletonized
AboveThresh(count, thresh) == count > thresh

\* root_index is never used, in place of line 308
UsesRootIndexNever(ri, lab, kk) == FALSE

\* line 308: root_index is not None and labels[root_index] == k
UsesRootIndex(ri, lab, kk) == ri # NoIndex /\ lab[ri] = kk

\* one pass of the component loop up to the covering loop, lines 303-330
GraphTeasarStep ==
    /\ pc = "graph_teasar"
    /\ comp_k < n_components
    /\ IF AboveThresh(comp_counts[comp_k], cc_vertex_thresh)
       THEN IF UsesRootIndex(root_index, labels, comp_k)
            THEN /\ \E order \in HeapOrders :
                      \E d \in {Dijkstra(csgraph, {root_index}, Inf, order)} :
                          CompEnter(root_index, d.dist, d.pred,
                                    [ComponentMask(labels, comp_k)
                                        EXCEPT ![root_index] = FALSE], order)
                 /\ UNCHANGED <<farVars, comp_k>>
            ELSE /\ FarEnter(ComponentMask(labels, comp_k))
                 /\ pc' = "find_far"
                 /\ UNCHANGED <<raised, compVars, comp_k>>
       ELSE /\ comp_k' = comp_k + 1
            /\ UNCHANGED <<pc, raised, farVars, compVars>>
    /\ UNCHANGED <<inputVars, n_components, labels, comp_counts,
                   all_paths, roots, tot_path_lengths, mesh_to_skeleton_map>>

\* root_function returned: lines 317-330
GraphTeasarRootFound ==
    /\ pc = "far_return"
    /\ entry = "graph_teasar"
    /\ \E order \in HeapOrders :
          CompEnter(best_root, dist_to_root, pred,
                    [fvalid EXCEPT ![best_root] = FALSE], order)
    /\ UNCHANGED <<inputVars, driverVars, farVars>>

\* mesh_to_skeleton_map[:] = mesh_to_skeleton_map_single in place of lines
\* 335-337
MergeMapUnfiltered(global, single) == [x \in DOMAIN global |-> single[x]]

\* lines 335-337: the component's entries are copied over the global map
MergeMap(global, single) ==
    [x \in DOMAIN global |-> IF single[x] # NaN THEN single[x] ELSE global[x]]

\* line 339: the components whose results are kept
KeepsResult(lengths) == Len(lengths) > 0

\* graph_teasar_component returned: lines 331-343
GraphTeasarCollect ==
    /\ LoopDone
    /\ entry = "graph_teasar"
    /\ mesh_to_skeleton_map' = MergeMap(mesh_to_skeleton_map, mesh_to_skeleton_map_single)
    /\ IF KeepsResult(path_lengths)
       THEN /\ tot_path_lengths' = Append(tot_path_lengths, path_lengths)
            /\ all_paths' = Append(all_paths, paths)
            /\ roots' = Append(roots, root)
       ELSE UNCHANGED <<tot_path_lengths, all_paths, roots>>
    /\ comp_k' = comp_k + 1
    /\ pc' = "graph_teasar"
    /\ UNCHANGED <<inputVars, raised, n_components, labels, comp_counts,
                   farVars, compVars>>

\* lines 345-348
GraphTeasarReturn ==
    /\ pc = "graph_teasar"
    /\ comp_k = n_components
    /\ pc' = "done"
    /\ UNCHANGED <<inputVars, raised, driverVars, farVars, compVars>>

\* ------------------------------------ graph_teasar_component called directly
\* lines 71-111; root and valid hold the arguments (NoIndex / None: not given)
ComponentCall ==
    /\ pc = "graph_teasar_component"
    /\ IF root = NoIndex
       THEN \E m \in {RootMask(valid)} :
            IF FarCanEnter(m)
            THEN /\ FarEnter(m)
                 /\ pc' = "find_far"
                 /\ UNCHANGED <<raised, compVars>>
            ELSE /\ Raise("IndexError")
                 /\ UNCHANGED <<farVars, compVars>>
       ELSE /\ \E order \in HeapOrders : CompEnter(root, None, None, valid, order)
            /\ UNCHANGED farVars
    /\ UNCHANGED <<inputVars, driverVars>>

\* find_root_func returned: lines 75-111
ComponentRootFound ==
    /\ pc = "far_return"
    /\ entry = "graph_teasar_component"
    /\ \E order \in HeapOrders :
          CompEnter(best_root, dist_to_root, pred, fvalid, order)
    /\ UNCHANGED <<inputVars, driverVars, farVars>>

\* lines 214-220
ComponentReturn ==
    /\ LoopDone
    /\ entry = "graph_teasar_component"
    /\ pc' = "done"
    /\ UNCHANGED <<inputVars, raised, driverVars, farVars, compVars>>

\* ------------------------------------- find_far_points_graph called directly
\* lines 61-74; fvalid holds the argument (None: not given)
FarCall ==
    /\ pc = "find_far_points_graph"
    /\ IF FarCanEnter(fvalid)
       THEN FarEnter(fvalid) /\ pc' = "find_far" /\ UNCHANGED raised
       ELSE Raise("IndexError") /\ UNCHANGED farVars
    /\ UNCHANGED <<inputVars, driverVars, compVars>>

\* line 92
FarReturn ==
    /\ pc = "far_return"
    /\ entry = "find_far_points_graph"
    /\ pc' = "done"
    /\ UNCHANGED <<inputVars, raised, driverVars, farVars, compVars>>

\* ----------------------------------------------------------------- inputs
Pairs(n) == {e \in (0..(n - 1)) \X (0..(n - 1)) : e[1] < e[2]}

\* every undirected graph on N vertices with edge weights 0..MaxW
Graphs ==
    UNION {{MkGraph(N, edges, weight) : weight \in [edges -> 0..MaxW]} :
              edges \in SUBSET Pairs(N)}

Unit(edges) == [e \in edges |-> 1]

\* the graphs of tests/test_spatialgraphs.py
SquareEdges == {<<0, 1>>, <<1, 2>>, <<2, 3>>, <<0, 3>>}
Square == MkGraph(4, SquareEdges, Unit(SquareEdges))

\* the square after G[3, 0] = 0.0; G.eliminate_zeros(): one stored entry less
SquareCut ==
    [n   |-> 4,
     adj |-> Square.adj \ {<<3, 0>>},
     wt  |-> [e \in Square.adj \ {<<3, 0>>} |-> 1]]

SquareAndEdgeEdges == SquareEdges \cup {<<4, 5>>}
SquareAndEdge == MkGraph(6, SquareAndEdgeEdges, Unit(SquareAndEdgeEdges))

\* the main line 0..10 with side branches off 2 and 5, edge lengths times ten
BranchedLineEdges ==
    {<<i, i + 1>> : i \in 0..9}
        \cup {<<2, 11>>, <<11, 12>>, <<12, 13>>, <<5, 14>>, <<14, 15>>, <<15, 16>>}
BranchedLine ==
    MkGraph(17, BranchedLineEdges,
            [e \in BranchedLineEdges |-> IF e = <<15, 16>> THEN 30 ELSE 10])
BranchedLineInvalidation == {11, 31, 51}

Masks(g) == [Verts(g) -> BOOLEAN]

\* graph_teasar(csgraph, root_index, invalidation_d, cc_vertex_thresh)
TeasarInputs ==
    [g : Graphs, inv : 0..MaxInv, thresh : 0..MaxThresh,
     root_index : {NoIndex} \cup (0..(N - 1))]
    \cup [g : {SquareAndEdge}, inv : {DefaultInvalidationD}, thresh : {0, 3},
          root_index : {NoIndex}]
    \cup [g : {BranchedLine}, inv : BranchedLineInvalidation, thresh : {0},
          root_index : {0}]

\* graph_teasar_component(csgraph, root, valid, invalidation_d)
ComponentInputs ==
    [g : Graphs, inv : 0..MaxInv, root : {NoIndex} \cup (0..(N - 1)),
     valid : {None} \cup [0..(N - 1) -> BOOLEAN]]
    \cup [g : {Square}, inv : {DefaultInvalidationD}, root : {NoIndex}, valid : {None}]
    \cup [g : {BranchedLine}, inv : BranchedLineInvalidation, root : {0},
          valid : {None}]

FairComponentInputs ==
    {inp \in ComponentInputs : inp.valid = None \/ inp.root = 0}

\* find_far_points_graph(mesh_graph, valid)
FarInputs ==
    [g : Graphs \cup {SquareCut}, valid : {None} \cup [0..(N - 1) -> BOOLEAN]]

\* ------------------------------------------------------------ specifications
Idle ==
    /\ raised = ""
    /\ comp_k = 0 /\ all_paths = <<>> /\ roots = <<>> /\ tot_path_lengths = <<>>
    /\ current_root = NoIndex /\ best_root = NoIndex
    /\ max_observed_distance = 0 /\ current_distance = 0
    /\ far_from_current = NoIndex /\ pred = None /\ dist_to_root = None /\ far_k = 0
    /\ root_ds = None /\ root_pred = None
    /\ visited_nodes = <<>> /\ paths = <<>> /\ path_lengths = <<>>
    /\ mesh_to_skeleton_dist = None /\ mesh_to_skeleton_map_single = None
    /\ k = 0 /\ target = NoIndex /\ branch = NoIndex /\ max_path_length = 0
    /\ valid0 = None

\* graph_teasar is called and has labelled the components, lines 285-297
Init ==
    \E inp \in TeasarInputs :
        /\ entry = "graph_teasar"
        /\ pc = "graph_teasar"
        /\ csgraph = inp.g
        /\ invalidation_d = inp.inv
        /\ cc_vertex_thresh = inp.thresh
        /\ root_index = inp.root_index
        /\ labels = Labels(inp.g)
        /\ n_components = NComponents(labels)
        /\ comp_counts = CompCounts(labels)
        /\ mesh_to_skeleton_map = [x \in Verts(inp.g) |-> NaN]
        /\ fvalid = None /\ root = NoIndex /\ valid = None
        /\ Idle

Next ==
    \/ GraphTeasarStep
    \/ FarSweep
    \/ GraphTeasarRootFound
    \/ Iterate
    \/ GraphTeasarCollect
    \/ GraphTeasarReturn

Spec == Init /\ [][Next]_vars

\* graph_teasar_component is called with the arguments inp
ComponentCalled(inp) ==
        /\ entry = "graph_teasar_component"
        /\ pc = "graph_teasar_component"
        /\ csgraph = inp.g
        /\ invalidation_d = inp.inv
        /\ cc_vertex_thresh = 0
        /\ root_index = NoIndex
        /\ labels = None /\ n_components = 0 /\ comp_counts = None
        /\ mesh_to_skeleton_map = None
        /\ fvalid = None /\ root = inp.root /\ valid = inp.valid
        /\ Idle

InitComponent == \E inp \in ComponentInputs : ComponentCalled(inp)

NextComponent ==
    \/ ComponentCall
    \/ FarSweep
    \/ ComponentRootFound
    \/ Iterate
    \/ ComponentReturn

SpecComponent == InitComponent /\ [][NextComponent]_vars

\* The call runs on: it is one thread with no suspension point, so a step
\* that can be taken is taken.  The arguments are those of ComponentInputs
\* with either no mask and any root, or any mask and root 0.
InitFairComponent == \E inp \in FairComponentInputs : ComponentCalled(inp)

FairSpecComponent ==
    InitFairComponent /\ [][NextComponent]_vars /\ WF_vars(NextComponent)

\* find_far_points_graph is called
InitFar ==
    \E inp \in FarInputs :
        /\ entry = "find_far_points_graph"
        /\ pc = "find_far_points_graph"
        /\ csgraph = inp.g
        /\ invalidation_d = 0
        /\ cc_vertex_thresh = 0
        /\ root_index = NoIndex
        /\ labels = None /\ n_components = 0 /\ comp_counts = None
        /\ mesh_to_skeleton_map = None
        /\ fvalid = inp.valid /\ root = NoIndex /\ valid = None
        /\ Idle

NextFar ==
    \/ FarCall
    \/ FarSweep
    \/ FarReturn

SpecFar == InitFar /\ [][NextFar]_vars

\* The call runs on: it is one thread with no suspension point.
FairSpecFar == SpecFar /\ WF_vars(NextFar)

\* ------------------------------------------------------- reference distances
\* The shortest-path distance, by relaxing every edge n-1 times (Bellman-Ford).
RECURSIVE Relaxed(_, _, _)
Relaxed(g, d, rounds) ==
    IF rounds = 0 THEN d
    ELSE Relaxed(g,
            Tabulated([v \in Verts(g) |->
                SetMin({d[v]} \cup {d[u] + EdgeW(g, u, v) :
                                      u \in {w \in Neighbors(g, v) : d[w] # Inf}})]),
            rounds - 1)

\* distances of every vertex from the nearest vertex of S
DistFrom(g, S) ==
    Relaxed(g, [v \in Verts(g) |-> IF v \in S THEN 0 ELSE Inf], g.n - 1)

Last(s) == s[Len(s)]

\* the vertices of the paths recorded so far
PathVertices(ps) == UNION {SeqSet(ps[i]) : i \in 1..Len(ps)}

\* the covering loop has run and no exception ended it
Covering == pc \in {"teasar_loop", "done"} /\ raised = ""

\* ------------------------------------------------------------------- claims
\* C1: while the covering loop of graph_teasar_component runs, a vertex whose
\* valid flag is false never gets it back, so the number of valid vertices
\* never increases.
ValidNeverRestored ==
    [][pc = "teasar_loop" =>
          /\ \A v \in DOMAIN valid : valid'[v] => valid[v]
          /\ NumValid(valid') <= NumValid(valid)]_vars

\* a second sweep has run after the first one invalidated its target, which is
\* still invalid
ValidNeverRestoredWitness ==
    /\ pc = "teasar_loop"
    /\ k >= 2
    /\ Len(paths) >= 2
    /\ valid0[paths[1][1]]
    /\ ~valid[paths[1][1]]

\* C2: once the reachability precondition has passed and the covering loop is
\* entered, it ends: no vertex is valid any more after finitely many passes.
CoveringLoopEnds == (pc = "teasar_loop") ~> LoopDone

\* the loop ended after three passes or more
CoveringLoopEndsWitness == LoopDone /\ k >= 3

\* C3: when graph_teasar_component returns, every vertex valid as the covering
\* loop started lies within invalidation_d of some vertex of a returned path.
Coverage ==
    (entry = "graph_teasar_component" /\ pc = "done") =>
        \/ NumValid(valid0) = 0
        \/ LET d == DistFrom(csgraph, PathVertices(paths))
           IN  \A v \in DOMAIN valid0 : valid0[v] => d[v] <= invalidation_d

\* a run that returned two paths or more and covered a vertex on no path
CoverageWitness ==
    /\ entry = "graph_teasar_component" /\ pc = "done"
    /\ Len(paths) >= 2
    /\ \E v \in DOMAIN valid0 : valid0[v] /\ v \notin PathVertices(paths)

\* C4: consecutive vertices of every recorded path are joined by an edge of the
\* graph, and the newest path runs from the iteration's target to its branch
\* vertex.
PathsFollowEdges ==
    Covering =>
        /\ \A i \in 1..Len(paths) : \A j \in 1..(Len(paths[i]) - 1) :
              paths[i][j + 1] \in Neighbors(csgraph, paths[i][j])
        /\ Len(paths) > 0 =>
              /\ paths[Len(paths)][1] = target
              /\ Last(paths[Len(paths)]) = branch

\* a second path, of three vertices or more, has been recorded
PathsFollowEdgesWitness ==
    /\ Covering
    /\ Len(paths) >= 2
    /\ Len(paths[Len(paths)]) >= 3
    /\ target # branch

\* C5: the length recorded for a path is the shortest-path distance in the
\* whole graph between the path's first and last vertex.
LengthIsDistance ==
    Covering =>
        \A i \in 1..Len(paths) :
            path_lengths[i] = DistFrom(csgraph, {paths[i][1]})[Last(paths[i])]

\* the newest of several paths came from a search whose radius left part of
\* the target's component out
LengthIsDistanceWitness ==
    /\ Covering
    /\ Len(paths) >= 2
    /\ path_lengths[Len(paths)] > 0
    /\ \E v \in Verts(csgraph) :
          LET d == DistFrom(csgraph, {target})[v]
          IN  d # Inf /\ d > max_path_length

\* C6: in graph_teasar, the map a component's run hands back assigns only
\* vertices of that component, to skeleton vertices of that component, none of
\* them assigned before; and an entry of the merged map, once written, is
\* never written again.
MapsDisjoint ==
    [][entry = "graph_teasar" =>
          /\ \A x \in DOMAIN mesh_to_skeleton_map :
                mesh_to_skeleton_map[x] # NaN =>
                    mesh_to_skeleton_map'[x] = mesh_to_skeleton_map[x]
          /\ (pc = "teasar_loop" /\ pc' = "graph_teasar") =>
                \A x \in DOMAIN mesh_to_skeleton_map_single :
                    mesh_to_skeleton_map_single[x] # NaN =>
                        /\ labels[x] = comp_k
                        /\ labels[mesh_to_skeleton_map_single[x]] = comp_k
                        /\ mesh_to_skeleton_map[x] = NaN
                        /\ mesh_to_skeleton_map'[x] = mesh_to_skeleton_map_single[x]]_vars

\* the maps of two components have been merged
MapsDisjointWitness ==
    /\ entry = "graph_teasar"
    /\ pc = "done"
    /\ \E x, y \in DOMAIN mesh_to_skeleton_map :
          /\ mesh_to_skeleton_map[x] # NaN
          /\ mesh_to_skeleton_map[y] # NaN
          /\ labels[x] # labels[y]

\* C7: when the covering loop has ended, a vertex within invalidation_d of the
\* returned paths is mapped to a path vertex nearest to it among all vertices
\* of all paths, and every other vertex is unassigned.
MapIsNearest ==
    (Covering /\ NumValid(valid) = 0 /\ Len(paths) > 0) =>
        \A x \in Verts(csgraph) :
            LET d == DistFrom(csgraph, PathVertices(paths))[x]
                m == mesh_to_skeleton_map_single[x]
            IN  IF d <= invalidation_d
                THEN /\ m \in PathVertices(paths)
                     /\ DistFrom(csgraph, {m})[x] = d
                ELSE m = NaN

\* a vertex the first sweep reached from outside the first path ended up
\* mapped to a vertex of a later path
MapIsNearestWitness ==
    /\ Covering /\ NumValid(valid) = 0
    /\ Len(paths) >= 2
    /\ \E x \in Verts(csgraph) \ SeqSet(paths[1]) :
          /\ DistFrom(csgraph, SeqSet(paths[1]))[x] <= invalidation_d
          /\ mesh_to_skeleton_map_single[x] \notin SeqSet(paths[1])

\* the labels of the components graph_teasar keeps: above the threshold and
\* of two vertices or more
KeptLabels ==
    {kk \in 0..(n_components - 1) :
        comp_counts[kk] > cc_vertex_thresh /\ comp_counts[kk] >= 2}

TargetBeyondPaths ==
    /\ (Covering /\ Len(paths) >= 1) =>
          \A i \in 1..(Len(paths) - 1) : \A u \in SeqSet(paths[i]) :
              DistFrom(csgraph, {target})[u] > invalidation_d
    /\ (pc = "done" /\ csgraph = BranchedLine) =>
          path_lengths = (CASE invalidation_d = 11 -> <<100, 50, 30>>
                            [] invalidation_d = 31 -> <<100, 50>>
                            [] invalidation_d = 51 -> <<100>>)

\* the branched line with invalidation_d 3.1: the branch off vertex 2 gave no
\* path
TargetBeyondPathsWitness ==
    /\ pc = "done" /\ csgraph = BranchedLine /\ invalidation_d = 31
    /\ Len(paths) = 2
    /\ {11, 12, 13} \cap PathVertices(paths) = {}

\* the state a sweep of find_far_points_graph leaves: the candidate root it
\* ran from
SweepRoot == IF pc = "find_far" THEN best_root ELSE current_root

\* C10: after every sweep of find_far_points_graph the far vertex is valid,
\* at a finite distance from the sweep's root that is the largest among the
\* valid vertices at finite distance; and the returned max_distance is finite
\* and is the distance from the returned root to the returned far vertex.
FarVertexFinite ==
    /\ (pc \in {"find_far", "far_return"} /\ far_k >= 1) =>
          LET d == DistFrom(csgraph, {SweepRoot})
          IN  /\ fvalid[far_from_current]
              /\ d[far_from_current] # Inf
              /\ \A v \in Verts(csgraph) :
                    (fvalid[v] /\ d[v] # Inf) => d[v] <= d[far_from_current]
    /\ (entry = "find_far_points_graph" /\ pc = "done") =>
          /\ max_observed_distance # Inf
          /\ max_observed_distance =
                 DistFrom(csgraph, {best_root})[current_root]

\* the vertex find_far_points_graph starts from, lines 61-67
StartVertex == SetMin({x \in DOMAIN fvalid : fvalid[x]})

\* C11: find_far_points_graph terminates; a sweep that is accepted strictly
\* increases max_observed_distance and the first sweep that is not ends the
\* loop; when no valid vertex is at a positive distance from the start vertex
\* the loop ends after its first sweep with max_distance 0 and the start
\* vertex as the root.
FarSweepsEnd ==
    /\ (pc = "find_far") ~> (pc = "far_return")
    /\ [][pc = "find_far" =>
            /\ pc' = "find_far" =>
                  max_observed_distance' > max_observed_distance
            /\ pc' = "far_return" =>
                  /\ current_distance' <= max_observed_distance
                  /\ max_observed_distance' = max_observed_distance]_vars
    /\ [](( /\ pc = "far_return"
            /\ \A v \in Verts(csgraph) :
                  fvalid[v] => DistFrom(csgraph, {StartVertex})[v] = 0) =>
              /\ far_k = 1
              /\ max_observed_distance = 0
              /\ best_root = StartVertex)

\* the loop ended at its third sweep, after two accepted swaps
FarSweepsEndWitness == pc = "far_return" /\ far_k >= 3

\* C12: when graph_teasar_component has its root and mask and some valid
\* vertex is at infinite distance from the root, the call fails with an error,
\* no path is recorded and the mask it was given is unchanged.
UnreachableValidFails ==
    [][( /\ entry = "graph_teasar_component"
         /\ pc \in {"graph_teasar_component", "far_return"}
         /\ root' # NoIndex
         /\ valid' # None
         /\ \E x \in Verts(csgraph) :
               valid'[x] /\ DistFrom(csgraph, {root'})[x] = Inf) =>
           /\ pc' = "raised"
           /\ raised' # ""
           /\ paths' = <<>>
           /\ path_lengths' = <<>>
           /\ valid # None => valid' = valid
           /\ fvalid # None => valid' = fvalid]_vars

\* the call failed on a mask, handed to the root search, that spans two
\* components
UnreachableValidFailsWitness ==
    /\ entry = "graph_teasar_component"
    /\ pc = "raised"
    /\ raised = "ValueError: all valid vertices should be reachable from root"
    /\ fvalid # None
    /\ \E x, y \in Verts(csgraph) :
          /\ valid[x] /\ valid[y]
          /\ DistFrom(csgraph, {x})[y] = Inf

\* C13: in graph_teasar, the covering loop of a component that holds
\* root_index starts from root_index, and of any other component from the root
\* the root search returned for that component's mask; either way the root is
\* not valid as the loop starts; and the entry of roots reported for the
\* component of root_index is root_index.
RootIndexIsRoot ==
    /\ [][( /\ entry = "graph_teasar"
             /\ pc # "teasar_loop"
             /\ pc' = "teasar_loop") =>
               /\ ~valid'[root']
               /\ labels[root'] = comp_k
               /\ IF root_index # NoIndex /\ labels[root_index] = comp_k
                  THEN pc = "graph_teasar" /\ root' = root_index
                  ELSE /\ pc = "far_return"
                       /\ root' = best_root
                       /\ fvalid = [v \in Verts(csgraph) |-> labels[v] = comp_k]]_vars
    /\ []((entry = "graph_teasar" /\ pc = "done" /\ root_index # NoIndex) =>
             /\ \A i \in 1..Len(roots) :
                   labels[roots[i]] = labels[root_index] => roots[i] = root_index
             /\ ( /\ comp_counts[labels[root_index]] > cc_vertex_thresh
                  /\ comp_counts[labels[root_index]] >= 2) =>
                   \E i \in 1..Len(roots) : roots[i] = root_index)

\* two components were kept: the second has root_index, which the root search
\* would not have chosen, as its root, and the first a root of the search
RootIndexIsRootWitness ==
    /\ entry = "graph_teasar" /\ pc = "done"
    /\ Len(roots) = 2
    /\ roots[2] = root_index
    /\ root_index # SetMin({v \in Verts(csgraph) : labels[v] = labels[root_index]})

\* C14: the first path of a component run starts at a vertex that was valid
\* as the loop started and is farthest from the root among those, ends at the
\* root, and its recorded length is the distance of its first vertex from the
\* root: 2 on the unit square from the searched root, 10.0 (100 here) on the
\* branched line from root 0.
FirstPathFromFarthest ==
    (Covering /\ Len(paths) >= 1) =>
        LET p == paths[1]
            d == DistFrom(csgraph, {root})
        IN  /\ valid0[p[1]]
            /\ \A v \in Verts(csgraph) : valid0[v] => d[v] <= d[p[1]]
            /\ Last(p) = root
            /\ path_lengths[1] = d[p[1]]
            /\ (csgraph = Square /\ valid0 = Ones(csgraph)) => path_lengths[1] = 2
            /\ csgraph = BranchedLine => path_lengths[1] = 100

\* C15: the recorded paths form a tree rooted at the root: each path ends at
\* the root or at a vertex of an earlier path, none of its other vertices is
\* the root or on an earlier path, and no vertex occurs twice in
\* visited_nodes.
PathsFormTree ==
    Covering =>
        /\ \A i \in 1..Len(paths) :
              LET earlier == {root} \cup PathVertices(SubSeq(paths, 1, i - 1))
              IN  /\ Last(paths[i]) \in earlier
                  /\ \A j \in 1..(Len(paths[i]) - 1) : paths[i][j] \notin earlier
        /\ \A i, j \in 1..Len(visited_nodes) :
              visited_nodes[i] = visited_nodes[j] => i = j

\* C16: the target a pass selects is a vertex that is valid as the pass
\* starts, at the largest distance from the root among the valid vertices, and
\* the lowest-numbered of those at that distance.
TargetIsFarthestValid ==
    [][(pc = "teasar_loop" /\ k' = k + 1 /\ target' # NoIndex) =>
          LET d == DistFrom(csgraph, {root})
          IN  /\ valid[target']
              /\ \A v \in Verts(csgraph) :
                    valid[v] => /\ d[v] <= d[target']
                                /\ d[v] = d[target'] => target' <= v]_vars

\* C17: once the covering loop has been entered no pass raises: the target is
\* at a finite distance from the root and the length to the branch vertex is
\* finite and within the radius of the search from the target.
NoIterationFails ==
    [][pc = "teasar_loop" =>
          /\ pc' # "raised"
          /\ raised' = ""
          /\ k' = k + 1 =>
                /\ DistFrom(csgraph, {root})[target'] # Inf
                /\ Len(path_lengths') = Len(path_lengths) + 1
                /\ Last(path_lengths') # Inf
                /\ Last(path_lengths') <= max_path_length'
                /\ Last(path_lengths') =
                       DistFrom(csgraph, {target'})[branch']]_vars

\* a second pass or later joined its path to an earlier path, away from the
\* root
NoIterationFailsWitness ==
    /\ Covering
    /\ k >= 2
    /\ Len(paths) >= 2
    /\ max_path_length > 0
    /\ branch # root

\* ------------------------------------------ a component's run as a function
\* The runs of the driver's work on one component, as sets of outcomes over
\* the orders the heap may take: the same steps as FarSweep, CompEnter and
\* Iterate, on records instead of the state.

\* find_far_points_graph lines 75-90: one sweep from the record f
FarSweepOf(g, mask, f, order) ==
    Only({Only({IF SwapAccepted(dc[far], f.max)
                THEN [cur |-> far, best |-> f.cur, max |-> dc[far],
                      pred |-> d.pred, dist |-> dc, over |-> FALSE]
                ELSE [f EXCEPT !.over = TRUE] :
                  far \in {ArgMax(dc, DOMAIN dc)}}) :
            d \in {Dijkstra(g, {f.cur}, Inf, order)},
            dc \in {MaskDistances(Dijkstra(g, {f.cur}, Inf, order).dist, mask)}})

RECURSIVE FarRuns(_, _, _)
FarRuns(g, mask, F) ==
    IF \A f \in F : f.over THEN F
    ELSE FarRuns(g, mask,
            {f \in F : f.over}
                \cup {FarSweepOf(g, mask, f, o) : f \in {h \in F : ~h.over},
                                                  o \in HeapOrders})

\* lines 317-318 after lines 61-92: the roots the search returns for mask,
\* with their predecessor and distance arrays
SearchedRoots(g, mask) ==
    {[root |-> f.best, rds |-> f.dist, rpred |-> f.pred] :
        f \in FarRuns(g, mask,
                 {[cur |-> SetMin({x \in DOMAIN mask : mask[x]}),
                   best |-> SetMin({x \in DOMAIN mask : mask[x]}),
                   max |-> 0, pred |-> None, dist |-> None, over |-> FALSE]})}

\* lines 309-313: the root handed in
GivenRoot(g, ri) ==
    {[root |-> ri, rds |-> d.dist, rpred |-> d.pred] :
        d \in {Dijkstra(g, {ri}, Inf, o) : o \in HeapOrders}}

\* graph_teasar_component lines 79-111 for the root record r and the mask
CoverStarts(g, mask, r) ==
    {[root |-> r.root, rds |-> d.dist, rpred |-> d.pred,
      valid |-> [mask EXCEPT ![r.root] = FALSE],
      visited |-> <<r.root>>, paths |-> <<>>, lengths |-> <<>>,
      failed |-> UnreachableValid(d.dist, [mask EXCEPT ![r.root] = FALSE])] :
        d \in IF r.rds = None
               THEN {Dijkstra(g, {r.root}, Inf, o) : o \in HeapOrders}
               ELSE {[dist |-> r.rds, pred |-> r.rpred]}}

\* lines 145-206 for the target t and the radius mpl
CoverPassFrom(g, inv, c, t, mpl, o1, o2) ==
    Only({IF PathFailed(w.path) \/ w.dt.dist[w.b] = Inf
          THEN [c EXCEPT !.failed = TRUE]
          ELSE [c EXCEPT
                  !.visited = ExtendVisited(c.visited, w.path),
                  !.paths = Append(c.paths, w.path),
                  !.lengths = Append(c.lengths, RecordedLength(w.dt.dist, w.b, mpl)),
                  !.valid = Invalidate(c.valid,
                                Dijkstra(g, SeqSet(w.path), inv, o2).dist)] :
            w \in {[dt |-> dt, b |-> BranchOf(dt.dist, c.visited),
                    path |-> get_path(t, BranchOf(dt.dist, c.visited), dt.pred)] :
                      dt \in {Dijkstra(g, {t}, mpl, o1)}}})

\* one pass of the covering loop, lines 119-210, from the record c
CoverPass(g, inv, c, o1, o2) ==
    Only({IF t = NoPred \/ c.rds[t] = Inf THEN [c EXCEPT !.failed = TRUE]
          ELSE Only({IF mb = NoPred \/ MaxPathLength(c.rds, t, mb) < 0
                     THEN [c EXCEPT !.failed = TRUE]
                     ELSE CoverPassFrom(g, inv, c, t,
                                        MaxPathLength(c.rds, t, mb), o1, o2) :
                       mb \in {MaxBranch(t, SeqSet(c.visited), c.rpred, g.n)}}) :
            t \in {NanArgMax(c.rds, c.valid)}})

CoverOver(c) == c.failed \/ NumValid(c.valid) = 0

RECURSIVE CoverRuns(_, _, _)
CoverRuns(g, inv, C) ==
    IF \A c \in C : CoverOver(c) THEN C
    ELSE CoverRuns(g, inv,
            {c \in C : CoverOver(c)}
                \cup {CoverPass(g, inv, c, o1, o2) :
                        c \in {h \in C : ~CoverOver(h)},
                        o1 \in HeapOrders, o2 \in HeapOrders})

\* graph_teasar lines 304-343 for the component kk: the roots, paths and path
\* lengths its run can end with ("failed" for a run that raises)
ComponentResults(g, lab, kk, ri, inv) ==
    LET mask   == ComponentMask(lab, kk)
        rootsk == IF UsesRootIndex(ri, lab, kk) THEN GivenRoot(g, ri)
                  ELSE SearchedRoots(g, mask)
        starts == UNION {CoverStarts(g, mask, r) : r \in rootsk}
    IN  {IF c.failed THEN <<"failed">> ELSE <<c.root, c.paths, c.lengths>> :
            c \in CoverRuns(g, inv, starts)}

\* the graph g with every edge outside the component kk removed
Alone(g, lab, kk) ==
    [n   |-> g.n,
     adj |-> {e \in g.adj : lab[e[1]] = kk},
     wt  |-> [e \in {f \in g.adj : lab[f[1]] = kk} |-> g.wt[e]]]

\* the label the component kk of csgraph has in the graph that holds it alone
AloneLabel(kk) ==
    Labels(Alone(csgraph, labels, kk))[SetMin({v \in Verts(csgraph) : labels[v] = kk})]

\* C18: the root, paths and path lengths graph_teasar produces for a component
\* are those of the component's own run, and that run is the same in the
\* graph that holds the component alone; while a component is processed the
\* mask and the visited list hold vertices of that component only, and no
\* step changes the map entry of a vertex of another component.
ComponentsIndependent ==
    /\ []((entry = "graph_teasar" /\ pc = "graph_teasar" /\ comp_k = 0) =>
             \A kk \in 0..(n_components - 1) :
                 ComponentResults(csgraph, labels, kk, root_index, invalidation_d)
                    = ComponentResults(Alone(csgraph, labels, kk),
                                       Labels(Alone(csgraph, labels, kk)),
                                       AloneLabel(kk), root_index, invalidation_d))
    /\ []((entry = "graph_teasar" /\ pc = "teasar_loop") =>
             /\ \A v \in Verts(csgraph) : valid[v] => labels[v] = comp_k
             /\ \A v \in SeqSet(visited_nodes) : labels[v] = comp_k
             /\ NumValid(valid) = 0 =>
                   <<root, paths, path_lengths>> \in
                       ComponentResults(csgraph, labels, comp_k, root_index,
                                        invalidation_d))
    /\ [][entry = "graph_teasar" =>
             \A x \in Verts(csgraph) :
                 labels[x] # comp_k =>
                     mesh_to_skeleton_map'[x] = mesh_to_skeleton_map[x]]_vars

\* the second of two components of two vertices or more has been processed
ComponentsIndependentWitness ==
    /\ entry = "graph_teasar"
    /\ pc = "teasar_loop"
    /\ NumValid(valid) = 0
    /\ comp_k = 1
    /\ Len(paths) >= 1
    /\ Len(roots) = 1

\* C19: within one run of graph_teasar_component the root distances of the
\* successively selected targets never increase: every path starts at the
\* target of its iteration, the newest path at the current target, and the
\* start of each path is no farther from the root than the start of the path
\* before it.
TargetsNonIncreasing ==
    Covering =>
        /\ Len(paths) = k
        /\ Len(paths) >= 1 => paths[Len(paths)][1] = target
        /\ \A i \in 1..(Len(paths) - 1) :
              /\ root_ds[paths[i][1]] # Inf
              /\ root_ds[paths[i + 1][1]] <= root_ds[paths[i][1]]
              /\ DistFrom(csgraph, {root})[paths[i + 1][1]]
                    <= DistFrom(csgraph, {root})[paths[i][1]]

\* a second target strictly nearer to the root than the first
TargetsNonIncreasingWitness ==
    /\ Covering
    /\ Len(paths) >= 2
    /\ valid0[paths[2][1]]
    /\ 0 < root_ds[paths[2][1]]
    /\ root_ds[paths[2][1]] < root_ds[paths[1][1]]

====
